---- MODULE Spec2Model ----
(***************************************************************************)
(* ArarasView: the image classification pipeline of src/app.py.           *)
(*                                                                         *)
(* process_image is modelled as a state machine that walks the grid one   *)
(* cell per step; classify_biome, the two mask functions and the drawing  *)
(* primitives are operators.                                               *)
(*                                                                         *)
(* Numbers.  A percentage is kept as an exact fraction <<n, d>> (value    *)
(* n/d, d > 0) and compared with the integer thresholds of the source by  *)
(* cross-multiplication.  The source computes (count / total) * 100 in    *)
(* IEEE doubles; for every total up to 20000 and every count the double   *)
(* compares with 1, 5, 8, 20, 40, 50 and 80 exactly as the fraction does, *)
(* and for 8-bit R and G the test (G-R)/(G+R+1e-6) > 0.03 is exactly      *)
(* 100*(G-R) > 3*(G+R).                                                    *)
(***************************************************************************)
EXTENDS Integers, Sequences, FiniteSets, TLC

\* ---------------------------------------------------------------------
\* Bounds of the model
\* ---------------------------------------------------------------------
MaxPixels == 4      \* Spec: images with h * w <= MaxPixels, any pixels
MaxGrid == 2        \* Spec: grid_size in 1 .. MaxGrid
MaxDim == 12        \* SpecGrid: uniform images with h, w in 1 .. MaxDim
MaxGridL == 10      \* SpecGrid: grid_size in 1 .. MaxGridL
MaxBlock == 5       \* Spec: block images with h, w in 1 .. MaxBlock
BlockSide == 2      \* Spec: side of the uniform blocks of a block image
Res == 2            \* SpecClassify: percentages at every multiple of 1/Res

Min(a, b) == IF a < b THEN a ELSE b

\* ---------------------------------------------------------------------
\* Pixels.  A pixel is <<R, G, B>>; the images of the model draw their
\* pixels from Palette.
\* ---------------------------------------------------------------------
GRAY == <<128, 128, 128>>
GREEN == <<0, 255, 0>>
WHITE == <<255, 255, 255>>
PALE == <<200, 215, 200>>
Palette == {GRAY, GREEN, WHITE, PALE}

\* cv2.cvtColor(img, COLOR_RGB2GRAY) on 8-bit data: fixed point, 14 bits
RGB2GRAY(p) == (4899 * p[1] + 9617 * p[2] + 1868 * p[3] + 8192) \div 16384

\* cv2.cvtColor(img, COLOR_RGB2LAB) on 8-bit data: <<L*255/100, a+128, b+128>>,
\* tabulated for the palette (sRGB, D65).  Each value is at least 3 away from
\* the thresholds L > 140 and chroma < 18, more than the conversion's rounding.
RGB2LAB(p) ==
    CASE p = GRAY -> <<137, 128, 128>>
      [] p = GREEN -> <<224, 42, 211>>
      [] p = WHITE -> <<255, 128, 128>>
      [] p = PALE -> <<215, 120, 134>>

\* cv2 BORDER_DEFAULT (BORDER_REFLECT_101) index of a neighbour outside 0..n-1
Reflect101(i, n) ==
    IF n = 1 THEN 0
    ELSE IF i < 0 THEN 0 - i
    ELSE IF i >= n THEN 2 * n - 2 - i
    ELSE i

Abs(a) == IF a < 0 THEN 0 - a ELSE a

\* An image or a mask is a 2-D array a[y][x], 0 <= y < h, 0 <= x < w.
Array(hh, ww, S) == [0 .. hh - 1 -> [0 .. ww - 1 -> S]]
Pixels(hh, ww) == (0 .. hh - 1) \X (0 .. ww - 1)

\* cv2.Laplacian(gray, CV_64F), aperture 1: kernel [0 1 0; 1 -4 1; 0 1 0]
Laplacian(img, hh, ww, p) ==
    LET g(yy, xx) == RGB2GRAY(img[Reflect101(yy, hh)][Reflect101(xx, ww)])
    IN  g(p[1] - 1, p[2]) + g(p[1] + 1, p[2]) + g(p[1], p[2] - 1)
          + g(p[1], p[2] + 1) - 4 * g(p[1], p[2])

\* ---------------------------------------------------------------------
\* The two masks
\* ---------------------------------------------------------------------
\* ngrdi > 0.03 with ngrdi = (g - r) / (g + r + 1e-6)
\* the threshold taken as ngrdi >= 0
NgrdiAboveThreshold_nonneg(p) == p[2] >= p[1]

NgrdiAboveThreshold(p) == 100 * (p[2] - p[1]) > 3 * (p[2] + p[1])

calculate_ngrdi(img, hh, ww) ==
    [yy \in 0 .. hh - 1 |-> [xx \in 0 .. ww - 1 |->
        NgrdiAboveThreshold(img[yy][xx])]]

calculate_mineral_indices(img, hh, ww) ==
    [yy \in 0 .. hh - 1 |-> [xx \in 0 .. ww - 1 |->
        LET lab == RGB2LAB(img[yy][xx])
            a_shifted == lab[2] - 128
            b_shifted == lab[3] - 128
        IN  /\ lab[1] > 140
            /\ a_shifted * a_shifted + b_shifted * b_shifted < 18 * 18
            /\ Abs(Laplacian(img, hh, ww, <<yy, xx>>)) > 15]]

\* ---------------------------------------------------------------------
\* Biome taxonomy
\* ---------------------------------------------------------------------
COLOR_MAP ==
    [n \in {"Mata de Galeria", "Mata Ciliar", "Mata Seca", "Cerradão",
            "Cerrado Denso", "Cerrado Típico", "Cerrado Ralo",
            "Cerrado Rupestre", "Vereda", "Campo Sujo", "Campo Limpo",
            "Campo Úmido", "Campo Rupestre"} |->
        CASE n = "Mata de Galeria" -> <<0, 100, 0>>
          [] n = "Mata Ciliar" -> <<34, 139, 34>>
          [] n = "Mata Seca" -> <<85, 107, 47>>
          [] n = "Cerradão" -> <<0, 128, 0>>
          [] n = "Cerrado Denso" -> <<50, 205, 50>>
          [] n = "Cerrado Típico" -> <<173, 255, 47>>
          [] n = "Cerrado Ralo" -> <<240, 230, 140>>
          [] n = "Cerrado Rupestre" -> <<160, 82, 45>>
          [] n = "Vereda" -> <<0, 255, 255>>
          [] n = "Campo Sujo" -> <<218, 165, 32>>
          [] n = "Campo Limpo" -> <<255, 255, 0>>
          [] n = "Campo Úmido" -> <<70, 130, 180>>
          [] n = "Campo Rupestre" -> <<119, 136, 153>>]

FALLBACK_COLOR == <<100, 100, 100>>

\* COLOR_MAP.get(biome_name, (100, 100, 100))
ColorOf(name) ==
    IF name \in DOMAIN COLOR_MAP THEN COLOR_MAP[name] ELSE FALLBACK_COLOR

\* comparisons of a fraction <<n, d>> with an integer threshold k
PctGt(p, k) == p[1] > k * p[2]
PctGe(p, k) == p[1] >= k * p[2]

\* classify_biome with the forest threshold taken inclusive (>= 80)
classify_biome_ge80(veg_pct, rock_pct, wet, force_rock) ==
    LET has_rock == PctGt(rock_pct, 8) \/ force_rock
    IN  IF PctGe(veg_pct, 80)
        THEN (IF wet THEN "Mata de Galeria" ELSE "Mata Seca")
        ELSE IF PctGe(veg_pct, 50)
        THEN "Cerradão"
        ELSE IF PctGe(veg_pct, 5)
        THEN (IF has_rock THEN "Cerrado Rupestre"
              ELSE IF wet THEN "Vereda"
              ELSE IF PctGt(veg_pct, 40) THEN "Cerrado Denso"
              ELSE IF PctGe(veg_pct, 20) THEN "Cerrado Típico"
              ELSE "Cerrado Ralo")
        ELSE (IF has_rock THEN "Campo Rupestre"
              ELSE IF wet THEN "Campo Úmido"
              ELSE IF PctGt(veg_pct, 1) THEN "Campo Sujo"
              ELSE "Campo Limpo")

\* classify_biome naming the wet forest after the color table's extra entry
classify_biome_ciliar(veg_pct, rock_pct, wet, force_rock) ==
    LET has_rock == PctGt(rock_pct, 8) \/ force_rock
    IN  IF PctGt(veg_pct, 80)
        THEN (IF wet THEN "Mata Ciliar" ELSE "Mata Seca")
        ELSE IF PctGe(veg_pct, 50)
        THEN "Cerradão"
        ELSE IF PctGe(veg_pct, 5)
        THEN (IF has_rock THEN "Cerrado Rupestre"
              ELSE IF wet THEN "Vereda"
              ELSE IF PctGt(veg_pct, 40) THEN "Cerrado Denso"
              ELSE IF PctGe(veg_pct, 20) THEN "Cerrado Típico"
              ELSE "Cerrado Ralo")
        ELSE (IF has_rock THEN "Campo Rupestre"
              ELSE IF wet THEN "Campo Úmido"
              ELSE IF PctGt(veg_pct, 1) THEN "Campo Sujo"
              ELSE "Campo Limpo")

\* classify_biome consulting the rock flag before the forest branches
classify_biome_rock_first(veg_pct, rock_pct, wet, force_rock) ==
    LET has_rock == PctGt(rock_pct, 8) \/ force_rock
    IN  IF has_rock
        THEN (IF PctGe(veg_pct, 5) THEN "Cerrado Rupestre"
              ELSE "Campo Rupestre")
        ELSE IF PctGt(veg_pct, 80)
        THEN (IF wet THEN "Mata de Galeria" ELSE "Mata Seca")
        ELSE IF PctGe(veg_pct, 50)
        THEN "Cerradão"
        ELSE IF PctGe(veg_pct, 5)
        THEN (IF wet THEN "Vereda"
              ELSE IF PctGt(veg_pct, 40) THEN "Cerrado Denso"
              ELSE IF PctGe(veg_pct, 20) THEN "Cerrado Típico"
              ELSE "Cerrado Ralo")
        ELSE (IF wet THEN "Campo Úmido"
              ELSE IF PctGt(veg_pct, 1) THEN "Campo Sujo"
              ELSE "Campo Limpo")

classify_biome(veg_pct, rock_pct, wet, force_rock) ==
    LET has_rock == PctGt(rock_pct, 8) \/ force_rock
    IN  IF PctGt(veg_pct, 80)
        THEN (IF wet THEN "Mata de Galeria" ELSE "Mata Seca")
        ELSE IF PctGe(veg_pct, 50)
        THEN "Cerradão"
        ELSE IF PctGe(veg_pct, 5)
        THEN (IF has_rock THEN "Cerrado Rupestre"
              ELSE IF wet THEN "Vereda"
              ELSE IF PctGt(veg_pct, 40) THEN "Cerrado Denso"
              ELSE IF PctGe(veg_pct, 20) THEN "Cerrado Típico"
              ELSE "Cerrado Ralo")
        ELSE (IF has_rock THEN "Campo Rupestre"
              ELSE IF wet THEN "Campo Úmido"
              ELSE IF PctGt(veg_pct, 1) THEN "Campo Sujo"
              ELSE "Campo Limpo")

\* ---------------------------------------------------------------------
\* Drawing primitives
\* ---------------------------------------------------------------------
\* cv2.rectangle(img, (x0, y0), (x1, y1), color, -1): both corners are
\* inclusive, the part outside the image is clipped
InFilledRect(p, y0, x0, y1, x1) ==
    /\ y0 <= p[1] /\ p[1] <= y1
    /\ x0 <= p[2] /\ p[2] <= x1

\* cv2.rectangle(img, (x0, y0), (x1, y1), color, 1): the four edges
InBorderRect(p, y0, x0, y1, x1) ==
    /\ InFilledRect(p, y0, x0, y1, x1)
    /\ (p[1] = y0 \/ p[1] = y1 \/ p[2] = x0 \/ p[2] = x1)

\* the fill drawn with thickness 1 instead of -1: only the outline is painted
PaintCell_outline_only(ov, y0, x0, y1, x1, color) ==
    [yy \in DOMAIN ov |-> [xx \in DOMAIN ov[yy] |->
        IF InBorderRect(<<yy, xx>>, y0, x0, y1, x1) THEN WHITE
        ELSE ov[yy][xx]]]

PaintCell(ov, y0, x0, y1, x1, color) ==
    [yy \in DOMAIN ov |-> [xx \in DOMAIN ov[yy] |->
        IF InBorderRect(<<yy, xx>>, y0, x0, y1, x1) THEN WHITE
        ELSE IF InFilledRect(<<yy, xx>>, y0, x0, y1, x1) THEN color
        ELSE ov[yy][xx]]]

\* saturate_cast<uchar>(0.4 * a + 0.6 * b): 4a + 6b is even, never a tie
BlendChannel(a, b) ==
    LET v == (4 * a + 6 * b + 5) \div 10
    IN  IF v > 255 THEN 255 ELSE IF v < 0 THEN 0 ELSE v

\* cv2.addWeighted(overlay, 0.4, img_rgb, 0.6, 0)
addWeighted(ov, img) ==
    [yy \in DOMAIN ov |-> [xx \in DOMAIN ov[yy] |->
        <<BlendChannel(ov[yy][xx][1], img[yy][xx][1]),
          BlendChannel(ov[yy][xx][2], img[yy][xx][2]),
          BlendChannel(ov[yy][xx][3], img[yy][xx][3])>>]]

\* np.count_nonzero over a set of pixels of a mask
CountNonzero(mask, region) == Cardinality({p \in region : mask[p[1]][p[2]]})

\* ndarray.size of a 2-D array
Size(a) == Cardinality(DOMAIN a) * Cardinality(DOMAIN a[0])

\* the count divided by len(mask), the number of rows, instead of mask.size
GlobalPct_len(mask) ==
    <<100 * CountNonzero(mask, (DOMAIN mask) \X (DOMAIN mask[0])),
      Cardinality(DOMAIN mask)>>

\* (np.count_nonzero(mask) / mask.size) * 100
GlobalPct(mask) ==
    <<100 * CountNonzero(mask, (DOMAIN mask) \X (DOMAIN mask[0])), Size(mask)>>

\* the count overwritten instead of incremented
StatsIncrement_overwrite(s, name) ==
    [n \in DOMAIN s \cup {name} |-> IF n = name THEN 1 ELSE s[n]]

\* stats[biome_name] = stats.get(biome_name, 0) + 1
StatsIncrement(s, name) ==
    [n \in DOMAIN s \cup {name} |->
        IF n = name THEN (IF name \in DOMAIN s THEN s[name] ELSE 0) + 1
        ELSE s[n]]

\* ---------------------------------------------------------------------
\* State
\* ---------------------------------------------------------------------
VARIABLES
    h, w, img_rgb,          \* the decoded image
    grid_size, wet_soil, manual_rocks,   \* the other arguments
    pc,                     \* position in process_image
    veg_mask, rock_mask,    \* the two global masks, << >> until computed
    step_y, step_x,
    overlay,                \* the painted copy, << >> until made
    stats,                  \* the histogram (a dict: keys = DOMAIN)
    y, x,                   \* the loop variables of the grid walk
    cells,                  \* the cells classified so far, in order
    skipped,                \* cells left out by the total_pixels == 0 test
    result,                 \* what process_image returned, or NoResult
    call, ret               \* a direct call of classify_biome and its value

vars == <<h, w, img_rgb, grid_size, wet_soil, manual_rocks, pc, veg_mask,
          rock_mask, step_y, step_x, overlay, stats, y, x, cells, skipped,
          result, call, ret>>

NotComputed == << >>
NoResult == [none |-> TRUE]
NoCall == [none |-> TRUE]

\* process_image entered with a decoded image and its arguments
Start(hh, ww, img, gs, wet, force) ==
    /\ h = hh /\ w = ww /\ img_rgb = img
    /\ grid_size = gs /\ wet_soil = wet /\ manual_rocks = force
    /\ pc = "masks"
    /\ veg_mask = NotComputed /\ rock_mask = NotComputed
    /\ step_y = 0 /\ step_x = 0
    /\ overlay = NotComputed
    /\ stats = << >>
    /\ y = 0 /\ x = 0
    /\ cells = << >>
    /\ skipped = 0
    /\ result = NoResult
    /\ call = NoCall /\ ret = ""

Uniform(hh, ww, color) == [yy \in 0 .. hh - 1 |-> [xx \in 0 .. ww - 1 |-> color]]

\* every image of at most MaxPixels pixels over the palette
InitSmall ==
    \E hh \in 1 .. MaxPixels, ww \in 1 .. MaxPixels :
        /\ hh * ww <= MaxPixels
        /\ \E img \in Array(hh, ww, Palette), gs \in 1 .. MaxGrid,
              wet \in BOOLEAN, force \in BOOLEAN :
                Start(hh, ww, img, gs, wet, force)

\* the end-to-end scenarios: 100 x 100 uniform images, grid_size = 10
InitScenario ==
    \E color \in {GRAY, GREEN}, wet \in BOOLEAN, force \in BOOLEAN :
        Start(100, 100, Uniform(100, 100, color), 10, wet, force)

\* images made of uniform BlockSide x BlockSide blocks, gray or green
InitBlocks ==
    \E hh \in 1 .. MaxBlock, ww \in 1 .. MaxBlock :
        \E blocks \in Array((hh - 1) \div BlockSide + 1,
                            (ww - 1) \div BlockSide + 1, {GRAY, GREEN}),
           gs \in 1 .. MaxGrid, wet \in BOOLEAN, force \in BOOLEAN :
            Start(hh, ww,
                  [yy \in 0 .. hh - 1 |-> [xx \in 0 .. ww - 1 |->
                      blocks[yy \div BlockSide][xx \div BlockSide]]],
                  gs, wet, force)

Init == InitSmall \/ InitBlocks \/ InitScenario

\* larger uniform images, to exercise the grid geometry
InitGrid ==
    \E hh \in 1 .. MaxDim, ww \in 1 .. MaxDim, gs \in 1 .. MaxGridL :
        Start(hh, ww, Uniform(hh, ww, GRAY), gs, FALSE, FALSE)

\* ---------------------------------------------------------------------
\* process_image
\* ---------------------------------------------------------------------
\* h // grid_size with the quotient rounded up instead of down
StepOf_ceil(dim, gs) == (dim + gs - 1) \div gs

\* h // grid_size, w // grid_size
StepOf(dim, gs) == dim \div gs

\* the far edge taken one further, as for an inclusive corner
FarEdge_inclusive(origin, step, dim) == Min(origin + step + 1, dim)

\* min(y + step_y, h), min(x + step_x, w)
FarEdge(origin, step, dim) == Min(origin + step, dim)

\* lines 164-165
ComputeMasks ==
    /\ pc = "masks"
    /\ veg_mask' = calculate_ngrdi(img_rgb, h, w)
    /\ rock_mask' = calculate_mineral_indices(img_rgb, h, w)
    /\ pc' = "setup"
    /\ UNCHANGED <<h, w, img_rgb, grid_size, wet_soil, manual_rocks, step_y,
                   step_x, overlay, stats, y, x, cells, skipped, result,
                   call, ret>>

\* lines 168-172
GridSetup ==
    /\ pc = "setup"
    /\ step_y' = StepOf(h, grid_size)
    /\ step_x' = StepOf(w, grid_size)
    /\ overlay' = img_rgb
    /\ stats' = << >>
    /\ y' = 0 /\ x' = 0
    /\ pc' = "loop"
    /\ UNCHANGED <<h, w, img_rgb, grid_size, wet_soil, manual_rocks, veg_mask,
                   rock_mask, cells, skipped, result, call, ret>>

\* range(0, h, 0) or, in the first row, range(0, w, 0): ValueError
RaiseValueError ==
    /\ pc = "loop"
    /\ step_y = 0 \/ step_x = 0
    /\ pc' = "error"
    /\ UNCHANGED <<h, w, img_rgb, grid_size, wet_soil, manual_rocks, veg_mask,
                   rock_mask, step_y, step_x, overlay, stats, y, x, cells,
                   skipped, result, call, ret>>

\* one iteration of the inner loop, lines 176-203
ProcessCell ==
    /\ pc = "loop"
    /\ step_y > 0 /\ step_x > 0
    /\ y < h
    /\ LET y_end == FarEdge(y, step_y, h)
           x_end == FarEdge(x, step_x, w)
           roi == (y .. y_end - 1) \X (x .. x_end - 1)
           total_pixels == Cardinality(roi)
           veg_pct == <<100 * CountNonzero(veg_mask, roi), total_pixels>>
           rock_pct == <<100 * CountNonzero(rock_mask, roi), total_pixels>>
           biome_name == classify_biome(veg_pct, rock_pct, wet_soil,
                                        manual_rocks)
           color == ColorOf(biome_name)
       IN  /\ IF total_pixels = 0
              THEN /\ skipped' = skipped + 1
                   /\ UNCHANGED <<stats, overlay, cells>>
              ELSE /\ stats' = StatsIncrement(stats, biome_name)
                   /\ overlay' = PaintCell(overlay, y, x, y_end, x_end, color)
                   /\ cells' = Append(cells,
                                  [y |-> y, x |-> x, y_end |-> y_end,
                                   x_end |-> x_end, veg_pct |-> veg_pct,
                                   rock_pct |-> rock_pct,
                                   biome_name |-> biome_name,
                                   color |-> color])
                   /\ UNCHANGED skipped
    /\ IF x + step_x < w
       THEN x' = x + step_x /\ y' = y
       ELSE x' = 0 /\ y' = y + step_y
    /\ UNCHANGED <<h, w, img_rgb, grid_size, wet_soil, manual_rocks, pc,
                   veg_mask, rock_mask, step_y, step_x, result, call, ret>>

\* lines 206-212
Finish ==
    /\ pc = "loop"
    /\ step_y > 0 /\ step_x > 0
    /\ y >= h
    /\ result' = [final_img |-> addWeighted(overlay, img_rgb),
                  stats |-> stats,
                  global_veg |-> GlobalPct(veg_mask),
                  global_rock |-> GlobalPct(rock_mask)]
    /\ pc' = "done"
    /\ UNCHANGED <<h, w, img_rgb, grid_size, wet_soil, manual_rocks, veg_mask,
                   rock_mask, step_y, step_x, overlay, stats, y, x, cells,
                   skipped, call, ret>>

Next == ComputeMasks \/ GridSetup \/ RaiseValueError \/ ProcessCell \/ Finish

Spec == Init /\ [][Next]_vars

\* ---------------------------------------------------------------------
\* classify_biome called on its own, over its documented domain
\* ---------------------------------------------------------------------
\* thresholds of classify_biome on veg_pct, and values next to them
NearVeg ==
    {<<k * 1000 + d, 1000>> : k \in {1, 5, 20, 40, 50, 80}, d \in {-1, 0, 1, 10}}

VegSamples == {<<n, Res>> : n \in 0 .. 100 * Res} \cup NearVeg

RockSamples ==
    {<<n, Res>> : n \in (8 * Res - 2) .. (8 * Res + 2)}
        \cup {<<0, 1>>, <<100, 1>>, <<7990, 1000>>, <<8010, 1000>>}

InitClassify ==
    /\ \E v \in VegSamples, r \in RockSamples, wet \in BOOLEAN,
          force \in BOOLEAN :
            call = [veg_pct |-> v, rock_pct |-> r, wet_soil |-> wet,
                    force_rock |-> force]
    /\ ret = ""
    /\ h = 0 /\ w = 0 /\ img_rgb = << >>
    /\ grid_size = 0 /\ wet_soil = FALSE /\ manual_rocks = FALSE
    /\ pc = "idle"
    /\ veg_mask = NotComputed /\ rock_mask = NotComputed
    /\ step_y = 0 /\ step_x = 0
    /\ overlay = NotComputed
    /\ stats = << >>
    /\ y = 0 /\ x = 0
    /\ cells = << >>
    /\ skipped = 0
    /\ result = NoResult

Classify ==
    /\ call # NoCall
    /\ ret = ""
    /\ ret' = classify_biome(call.veg_pct, call.rock_pct, call.wet_soil,
                             call.force_rock)
    /\ UNCHANGED <<h, w, img_rgb, grid_size, wet_soil, manual_rocks, pc,
                   veg_mask, rock_mask, step_y, step_x, overlay, stats, y, x,
                   cells, skipped, result, call>>

NextClassify == Classify

SpecClassify == InitClassify /\ [][NextClassify]_vars

SpecGrid == InitGrid /\ [][Next]_vars

\* =====================================================================
\* Properties
\* =====================================================================
\* the twelve classes of the glossary
Glossary ==
    {"Mata de Galeria", "Mata Seca", "Cerradão", "Cerrado Denso",
     "Cerrado Típico", "Cerrado Ralo", "Cerrado Rupestre", "Vereda",
     "Campo Sujo", "Campo Limpo", "Campo Úmido", "Campo Rupestre"}

\* value of a fraction compared with an integer
PctEq(p, k) == p[1] = k * p[2]
PctLt(p, k) == p[1] < k * p[2]
PctLe(p, k) == p[1] <= k * p[2]

\* the decision table of the specification, one row per line, in order
DecisionTable(v, r, wt, f) ==
    LET hasRock == PctGt(r, 8) \/ f
        savanna == PctGe(v, 5) /\ PctLt(v, 50)
        grass == PctLt(v, 5)
    IN  << <<PctGt(v, 80) /\ wt, "Mata de Galeria">>,
           <<PctGt(v, 80), "Mata Seca">>,
           <<PctGe(v, 50) /\ PctLe(v, 80), "Cerradão">>,
           <<savanna /\ hasRock, "Cerrado Rupestre">>,
           <<savanna /\ wt, "Vereda">>,
           <<savanna /\ PctGt(v, 40), "Cerrado Denso">>,
           <<savanna /\ PctGe(v, 20), "Cerrado Típico">>,
           <<savanna, "Cerrado Ralo">>,
           <<grass /\ hasRock, "Campo Rupestre">>,
           <<grass /\ wt, "Campo Úmido">>,
           <<grass /\ PctGt(v, 1), "Campo Sujo">>,
           <<grass, "Campo Limpo">> >>

FirstMatch(v, r, wt, f) ==
    LET rows == DecisionTable(v, r, wt, f)
        i == CHOOSE k \in 1 .. Len(rows) :
                 rows[k][1] /\ \A j \in 1 .. k - 1 : ~rows[j][1]
    IN  rows[i][2]

\* C1: classify_biome returns the class of the first matching row of the
\* decision table, for every veg_pct and rock_pct in [0,100] and every flag
\* setting; at the boundaries 80 and 50 give Cerradão, 40 gives Cerrado
\* Típico (no rock, dry), 5 stays in the savanna branch, 1.0 gives Campo
\* Limpo, and rock_pct = 8.0 without force_rock does not count as rock.
C1_DecisionTable ==
    ret # "" =>
        LET v == call.veg_pct
            r == call.rock_pct
            wt == call.wet_soil
            f == call.force_rock
            plain == ~wt /\ ~f /\ PctLe(r, 8)
        IN  /\ ret = FirstMatch(v, r, wt, f)
            /\ (PctEq(v, 80) \/ PctEq(v, 50)) => ret = "Cerradão"
            /\ (PctEq(v, 40) /\ plain) => ret = "Cerrado Típico"
            /\ PctEq(v, 5) =>
                   ret \in {"Cerrado Rupestre", "Vereda", "Cerrado Ralo"}
            /\ (PctEq(v, 5) /\ plain) => ret = "Cerrado Ralo"
            /\ (PctEq(v, 1) /\ plain) => ret = "Campo Limpo"
            /\ (PctEq(r, 8) /\ ~f) =>
                   ret \notin {"Cerrado Rupestre", "Campo Rupestre"}

\* a call at the boundaries veg_pct = 80.0, rock_pct = 8.0 has returned
C1_Witness ==
    /\ call # NoCall
    /\ PctEq(call.veg_pct, 80) /\ PctEq(call.rock_pct, 8)
    /\ ~call.force_rock
    /\ ret = "Cerradão"

\* one input per class
Representatives ==
    {<<v, 1>> : v \in {0, 3, 10, 30, 45, 60, 90}} \X {<<0, 1>>, <<50, 1>>}

\* C2: classify_biome is total over its domain: every call returns one of
\* the twelve glossary classes (never Mata Ciliar), every class is returned
\* for some input, and the returned name has an entry in COLOR_MAP, so the
\* fallback color is not used.
C2_TotalOntoGlossary ==
    /\ ret # "" =>
        /\ ret \in Glossary
        /\ ret # "Mata Ciliar"
        /\ ret \in DOMAIN COLOR_MAP
        /\ ColorOf(ret) = COLOR_MAP[ret]
        /\ ColorOf(ret) # FALLBACK_COLOR
    /\ \A c \in Glossary :
        \E vr \in Representatives, wt \in BOOLEAN, f \in BOOLEAN :
            classify_biome(vr[1], vr[2], wt, f) = c

\* a call in the wet forest branch has returned
C2_Witness ==
    /\ call # NoCall
    /\ call.wet_soil
    /\ PctGt(call.veg_pct, 80)
    /\ ret = "Mata de Galeria"

\* ---------------------------------------------------------------------
\* Grid geometry
\* ---------------------------------------------------------------------
InCell(p, c) ==
    /\ c.y <= p[1] /\ p[1] < c.y_end
    /\ c.x <= p[2] /\ p[2] < c.x_end

CellsOverlap(c, e) ==
    /\ c.y < e.y_end /\ e.y < c.y_end
    /\ c.x < e.x_end /\ e.x < c.x_end

CellIndices == 1 .. Len(cells)

\* C3: when both steps are >= 1 the cells visited by the grid loop form a
\* partition of the image: each cell lies inside the image and has at least
\* one pixel (the empty-cell skip is never taken), no two cells overlap, and
\* once the loop has ended every pixel lies in exactly one cell.
C3_CellsPartitionImage ==
    /\ skipped = 0
    /\ \A i \in CellIndices :
        LET c == cells[i]
        IN  /\ 0 <= c.y /\ c.y < c.y_end /\ c.y_end <= h
            /\ 0 <= c.x /\ c.x < c.x_end /\ c.x_end <= w
    /\ Len(cells) > 1 =>
        \A i \in 1 .. Len(cells) - 1 :
            ~CellsOverlap(cells[i], cells[Len(cells)])
    /\ pc = "done" =>
        \A p \in Pixels(h, w) :
            Cardinality({i \in CellIndices : InCell(p, cells[i])}) = 1

\* the walk has ended on an image with a remainder row and a remainder column
C3_Witness ==
    /\ pc = "done"
    /\ step_y >= 2 /\ step_x >= 2
    /\ h % step_y # 0 /\ w % step_x # 0
    /\ Len(cells) >= 9

RowOrigins == {cells[i].y : i \in CellIndices}
ColOrigins == {cells[i].x : i \in CellIndices}
NumRows == Cardinality(RowOrigins)
NumCols == Cardinality(ColOrigins)
ShortRows == {cells[i].y : i \in {j \in CellIndices :
                 cells[j].y_end - cells[j].y < h \div grid_size}}
ShortCols == {cells[i].x : i \in {j \in CellIndices :
                 cells[j].x_end - cells[j].x < w \div grid_size}}

\* C8 as stated: for grid_size in [10,50] with both steps >= 1 the number of
\* rows and the number of columns of cells is grid_size or grid_size + 1.
C8_AtMostOneExtra ==
    (pc = "done" /\ grid_size >= 10 /\ grid_size <= 50) =>
        /\ NumRows \in {grid_size, grid_size + 1}
        /\ NumCols \in {grid_size, grid_size + 1}

CeilDiv(a, b) == (a + b - 1) \div b

\* C8 amended: with stepY = floor(h / grid_size) >= 1 the grid has
\* floor(h / stepY) >= grid_size full rows plus at most one shorter last row,
\* grid_size + ceil((h mod grid_size) / stepY) rows in all, which lies between
\* grid_size and 2 * grid_size - 1; the same holds for the columns.
C8_CellCountPerAxis ==
    pc = "done" =>
        LET sy == h \div grid_size
            sx == w \div grid_size
        IN  /\ sy >= 1 /\ sx >= 1
            /\ NumRows = grid_size + CeilDiv(h % grid_size, sy)
            /\ NumCols = grid_size + CeilDiv(w % grid_size, sx)
            /\ grid_size <= NumRows /\ NumRows <= 2 * grid_size - 1
            /\ grid_size <= NumCols /\ NumCols <= 2 * grid_size - 1
            /\ Len(cells) = NumRows * NumCols
            /\ NumRows - Cardinality(ShortRows) = h \div sy
            /\ NumCols - Cardinality(ShortCols) = w \div sx
            /\ Cardinality(ShortRows) <= 1
            /\ Cardinality(ShortCols) <= 1
            /\ \A r \in ShortRows : r + sy > h
            /\ \A c \in ShortCols : c + sx > w

\* grid_size = 10 on an image 12 pixels high: 12 rows of cells
C8_Witness ==
    /\ pc = "done"
    /\ grid_size = 10
    /\ h = 12
    /\ NumRows = 12

\* ---------------------------------------------------------------------
\* Histogram
\* ---------------------------------------------------------------------
RECURSIVE SumOver(_, _)
SumOver(f, S) ==
    IF S = {} THEN 0
    ELSE LET k == CHOOSE e \in S : TRUE
         IN  f[k] + SumOver(f, S \ {k})

CellsOfClass(name) == {i \in CellIndices : cells[i].biome_name = name}

\* number of cells of the whole grid
GridCells == CeilDiv(h, h \div grid_size) * CeilDiv(w, w \div grid_size)

\* C4: while the grid is walked, the values of stats sum to the number of
\* cells classified so far (at return, to the number of cells of the grid);
\* a key is present exactly when some cell was given that class and its count
\* is the number of such cells, hence >= 1: each classified cell adds 1 to
\* one entry and leaves the others unchanged.
C4_HistogramCountsCells ==
    /\ SumOver(stats, DOMAIN stats) = Len(cells)
    /\ DOMAIN stats = {cells[i].biome_name : i \in CellIndices}
    /\ \A k \in DOMAIN stats :
        /\ stats[k] = Cardinality(CellsOfClass(k))
        /\ stats[k] >= 1
    /\ pc = "done" =>
        /\ result.stats = stats
        /\ SumOver(result.stats, DOMAIN result.stats) = GridCells

\* a finished walk that found two classes, one of them more than once
C4_Witness ==
    /\ pc = "done"
    /\ Cardinality(DOMAIN stats) >= 2
    /\ \E k \in DOMAIN stats : stats[k] >= 2

\* ---------------------------------------------------------------------
\* Zero-sized step
\* ---------------------------------------------------------------------
\* C5 as stated: when grid_size exceeds the height or the width the call is
\* rejected before any mask is computed, no cell is classified or painted and
\* nothing is returned.
C5_RejectedBeforeMasks ==
    (grid_size > h \/ grid_size > w) =>
        /\ veg_mask = NotComputed
        /\ rock_mask = NotComputed
        /\ cells = << >>
        /\ result = NoResult

\* ---------------------------------------------------------------------
\* Precedence of the forest branches
\* ---------------------------------------------------------------------
AllTrue(mask) == \A yy \in DOMAIN mask : \A xx \in DOMAIN mask[yy] : mask[yy][xx]
NoneTrue(mask) == \A yy \in DOMAIN mask : \A xx \in DOMAIN mask[yy] : ~mask[yy][xx]

\* C6: a cell with veg_pct >= 50 gets the same class whatever rock_pct and
\* force_rock are; so on an image whose pixels are all vegetated, with
\* wet_soil false, every cell is Mata Seca and the histogram is
\* {Mata Seca: number of cells}, with or without force_rock and whatever the
\* rock mask is.
C6_ForestIgnoresRock ==
    /\ \A i \in CellIndices :
        PctGe(cells[i].veg_pct, 50) =>
            \A r \in RockSamples, f \in BOOLEAN :
                classify_biome(cells[i].veg_pct, r, wet_soil, f)
                    = cells[i].biome_name
    /\ (pc = "done" /\ ~wet_soil /\ AllTrue(veg_mask)) =>
        /\ \A i \in CellIndices : cells[i].biome_name = "Mata Seca"
        /\ stats = [n \in {"Mata Seca"} |-> GridCells]
        /\ result.stats = stats

\* an all-vegetated image with rock in its mask, processed with force_rock
C6_Witness ==
    /\ pc = "done"
    /\ manual_rocks /\ ~wet_soil
    /\ AllTrue(veg_mask)
    /\ ~NoneTrue(rock_mask)
    /\ \E i \in CellIndices : PctGt(cells[i].rock_pct, 8)
    /\ stats = [n \in {"Mata Seca"} |-> Len(cells)]

\* ---------------------------------------------------------------------
\* Bare image
\* ---------------------------------------------------------------------
IsUniform(img, color) ==
    \A yy \in DOMAIN img : \A xx \in DOMAIN img[yy] : img[yy][xx] = color

\* C7: when the vegetation mask and the rock mask are false at every pixel
\* (as for a uniform mid-gray image) and both flags are off, every cell has
\* veg_pct = rock_pct = 0 and is Campo Limpo, the histogram is
\* {Campo Limpo: number of cells}, and both global percentages are 0; for a
\* 100 x 100 image with grid_size = 10 the count is 100.
C7_BareImageIsCampoLimpo ==
    /\ (pc # "masks" /\ IsUniform(img_rgb, GRAY)) =>
        NoneTrue(veg_mask) /\ NoneTrue(rock_mask)
    /\ (pc = "done" /\ ~wet_soil /\ ~manual_rocks
            /\ NoneTrue(veg_mask) /\ NoneTrue(rock_mask)) =>
        /\ \A i \in CellIndices :
            /\ cells[i].veg_pct[1] = 0
            /\ cells[i].rock_pct[1] = 0
            /\ cells[i].biome_name = "Campo Limpo"
        /\ result.stats = [n \in {"Campo Limpo"} |-> GridCells]
        /\ result.global_veg[1] = 0
        /\ result.global_rock[1] = 0
        /\ (h = 100 /\ w = 100 /\ grid_size = 10) =>
            result.stats = [n \in {"Campo Limpo"} |-> 100]

\* the 100 x 100 mid-gray scenario has returned
C7_Witness ==
    /\ pc = "done"
    /\ h = 100 /\ w = 100 /\ grid_size = 10
    /\ ~wet_soil /\ ~manual_rocks
    /\ IsUniform(img_rgb, GRAY)
    /\ result.stats = [n \in {"Campo Limpo"} |-> 100]

\* ---------------------------------------------------------------------
\* Percentages
\* ---------------------------------------------------------------------
InPercentRange(p) == p[2] > 0 /\ 0 <= p[1] /\ p[1] <= 100 * p[2]

VegPixels ==
    {p \in Pixels(h, w) : NgrdiAboveThreshold(img_rgb[p[1]][p[2]])}

RockPixels ==
    LET m == calculate_mineral_indices(img_rgb, h, w)
    IN  {p \in Pixels(h, w) : m[p[1]][p[2]]}

\* C9: the returned global percentages are 100 x (true pixels of the
\* full-resolution mask of the image) / (pixels of the image), a value that
\* depends on the image alone, not on grid_size, the flags or the grid walk;
\* they lie in [0,100], and so does every per-cell veg_pct and rock_pct.
C9_GlobalPercentages ==
    /\ \A i \in CellIndices :
        /\ InPercentRange(cells[i].veg_pct)
        /\ InPercentRange(cells[i].rock_pct)
    /\ pc = "done" =>
        /\ result.global_veg = <<100 * Cardinality(VegPixels), h * w>>
        /\ result.global_rock = <<100 * Cardinality(RockPixels), h * w>>
        /\ InPercentRange(result.global_veg)
        /\ InPercentRange(result.global_rock)

\* a multi-cell walk over an image that is partly vegetated and partly rock
C9_Witness ==
    /\ pc = "done"
    /\ Len(cells) >= 2
    /\ result.global_veg[1] > 0 /\ ~PctGe(result.global_veg, 100)
    /\ result.global_rock[1] > 0

\* ---------------------------------------------------------------------
\* Painting
\* ---------------------------------------------------------------------
CellOfPixel(p) == cells[CHOOSE i \in CellIndices : InCell(p, cells[i])]

BlendOf(painted, original, blended) ==
    /\ 0 <= blended /\ blended <= 255
    /\ 10 * blended - (4 * painted + 6 * original) \in -5 .. 5

\* C10: after all cells are painted, every pixel of the painted copy is
\* white or has the display color of the class of the cell containing it,
\* and the returned pixel is the blend 0.4 x painted + 0.6 x original per
\* channel, within [0,255].
C10_PaintedByOwnCell ==
    pc = "done" =>
        \A p \in Pixels(h, w) :
            LET ov == overlay[p[1]][p[2]]
                src == img_rgb[p[1]][p[2]]
                out == result.final_img[p[1]][p[2]]
            IN  /\ ov = WHITE \/ ov = ColorOf(CellOfPixel(p).biome_name)
                /\ \A ch \in 1 .. 3 : BlendOf(ov[ch], src[ch], out[ch])

\* two horizontally adjacent cells of different classes, the right one with a
\* pixel that kept its own color
C10_Witness ==
    /\ pc = "done"
    /\ \E i \in CellIndices, j \in CellIndices :
        /\ cells[i].y = cells[j].y
        /\ cells[j].x = cells[i].x_end
        /\ cells[i].color # cells[j].color
        /\ \E p \in Pixels(h, w) :
            /\ InCell(p, cells[j])
            /\ overlay[p[1]][p[2]] = cells[j].color

====
